---- MODULE Spec2Model ----
(***************************************************************************)
(* Verification model of the web-security compliance scanner:              *)
(*   - the scan lifecycle driven by the Celery task run_security_scan_task *)
(*     (src/src/workers/tasks_scans.py) and the scan service               *)
(*     (src/src/services/scan_service.py);                                 *)
(*   - the compliance mapper evaluate_compliance;                          *)
(*   - the check runner run_all and the probes of                          *)
(*     src/src/services/security_checks, with the request loops of         *)
(*     check14, check15 and check16 step by step;                          *)
(*   - the routes of src/src/api/v1 and their ownership filters;           *)
(*   - the rate limiter of src/src/core/rate_limit.py;                     *)
(*   - report generation, deletion and download.                           *)
(***************************************************************************)
EXTENDS Integers, Sequences, FiniteSets, TLC

VARIABLES
    \* ---- scan lifecycle (database rows and broker messages) ----
    scanStatus,     \* Scan.status of every scan id ("absent": no row yet)
    scanSummary,    \* Scan.summary
    queued,         \* run_security_scan_task messages waiting in the broker
    running,        \* executions between their first and their second commit
    deliveries,     \* how often a message for the scan was handed to a worker
    portScans,      \* nm.scan calls made for the scan
    autoReports,    \* generate_pdf_report_task messages sent by the scan task
    faulted,        \* whether an execution of the scan task ended by an exception
    reportQueue,    \* generate_pdf_report_task messages waiting in the broker
    pdfReports,     \* PdfReport rows of the scan
    \* ---- one call of evaluate_compliance ----
    mPhase,         \* "off", "ready" (arguments chosen) or "done" (returned)
    mFindings,      \* the findings argument: the names of scan.findings, in order
    mHdrNet,        \* what the network answers to the GET of headers.run
    mCkNet,         \* what the network answers to the GET of cookies.run
    mTlsNet,        \* what the TLS connection of tls.run yields
    matrix,         \* the compliance_map returned
    \* ---- one probe run against one target ----
    pEnv,           \* the target as the network presents it
    pProbe,         \* the probe that ran last (kind "none" before the first)
    pOut,           \* what that probe did: raised, or its verdict and results
    \* ---- one call of master_runner.run_all ----
    rPhase,         \* "off", "ready" or "done"
    rEnv,           \* the target
    rOutcome,       \* per check: "returns", "raises" or "missing"
    rResults,       \* the dict returned
    \* ---- accounts, targets and scans as the routes see them ----
    users,          \* users table: the stored emails, in id order
    registered,     \* the email strings a registration was accepted for
    targetOwner,    \* Target.user_id (0: no row yet, -1: row deleted)
    scanOwner,      \* Scan.user_id (0: no row yet, -1: row deleted)
    scanTarget,     \* Scan.target_id (0: no row)
    enqueued,       \* scan ids run_security_scan_task was sent for
    resp,           \* the last response: status code, detail and listed ids
    \* ---- the request loop of one probe invocation (check14, check15, check16) ----
    lPhase,         \* "off", "idle", "running" or "returned"
    lCheck,         \* the probe running (0: none)
    lSslv3,         \* whether the Python build has ssl.PROTOCOL_SSLv3
    lIdx,           \* position in the list the probe walks
    lFound,         \* positions whose request succeeded
    lTimedOut,      \* whether a request of this invocation has timed out
    lRequests,      \* network requests issued by this invocation
    lOut,           \* the verdict returned
    \* ---- the rate_limit wrapper around one handler ----
    rlNow,          \* int(time.time()); 0 while the wrapper is not modelled
    rlSet,          \* per client: the members of the sorted set rl:<prefix>:<client>
    rlPassed,       \* per client and second: requests handed to the handler
    rlLast,         \* status of the last answer (0: none yet)
    \* ---- report rows, report files and report tasks ----
    reports,        \* the pdf_reports table: rows [id, scan_id, user_id, file_path]
    files,          \* /app/pdf_reports: per file name, the scan whose PDF it holds (0: no file)
    pendingReports, \* generate_pdf_report_task messages in the broker: [scan_id, user_id]
    nextReportId,   \* the id the next PdfReport row gets; 0 while reports are not modelled
    repTaskOut,     \* how the last report task ended
    repGot          \* the last download: who asked and the scan whose PDF was served

lifecycleVars == <<scanStatus, scanSummary, queued, running, deliveries,
                   portScans, autoReports, faulted, reportQueue, pdfReports>>

mapperVars == <<mPhase, mFindings, mHdrNet, mCkNet, mTlsNet, matrix>>

probeVars == <<pEnv, pProbe, pOut>>

runAllVars == <<rPhase, rEnv, rOutcome, rResults>>

accessVars == <<users, registered, targetOwner, scanOwner, scanTarget, enqueued, resp>>

loopVars == <<lPhase, lCheck, lSslv3, lIdx, lFound, lTimedOut, lRequests, lOut>>

rateVars == <<rlNow, rlSet, rlPassed, rlLast>>

reportsVars == <<reports, files, pendingReports, nextReportId, repTaskOut, repGot>>

nonLifecycleVars == <<mapperVars, probeVars, runAllVars, accessVars, loopVars, rateVars, reportsVars>>

nonMapperVars == <<lifecycleVars, probeVars, runAllVars, accessVars, loopVars, rateVars, reportsVars>>

nonProbeVars == <<lifecycleVars, mapperVars, runAllVars, accessVars, loopVars, rateVars, reportsVars>>

nonRunAllVars == <<lifecycleVars, mapperVars, probeVars, accessVars, loopVars, rateVars, reportsVars>>

nonAccessVars == <<lifecycleVars, mapperVars, probeVars, runAllVars, loopVars, rateVars, reportsVars>>

nonLoopVars == <<lifecycleVars, mapperVars, probeVars, runAllVars, accessVars, rateVars, reportsVars>>

nonRateVars == <<lifecycleVars, mapperVars, probeVars, runAllVars, accessVars, loopVars, reportsVars>>

nonReportsVars == <<lifecycleVars, mapperVars, probeVars, runAllVars, accessVars, loopVars, rateVars>>

vars == <<scanStatus, scanSummary, queued, running, deliveries,
          portScans, autoReports, faulted, reportQueue, pdfReports,
          mPhase, mFindings, mHdrNet, mCkNet, mTlsNet, matrix,
          pEnv, pProbe, pOut, rPhase, rEnv, rOutcome, rResults,
          users, registered, targetOwner, scanOwner, scanTarget, enqueued, resp,
          lPhase, lCheck, lSslv3, lIdx, lFound, lTimedOut, lRequests, lOut,
          rlNow, rlSet, rlPassed, rlLast,
          reports, files, pendingReports, nextReportId, repTaskOut, repGot>>

-----------------------------------------------------------------------------
(* Bounds of the model *)

MaxScans == 1
MaxDeliveries == 2
MaxFindings == 2
MaxCookies == 1
MaxDeviations == 2
MaxReportQueue == 2
MaxTargets == 2
MaxOwnedScans == 1
MaxTime == 4
MaxBurst == 3
MaxRequests == 1
WindowSeconds == 2
MaxReportScans == 2
MaxReportIds == 2
MaxPendingReports == 1

ScanIds == 1..MaxScans

-----------------------------------------------------------------------------
(* Scan lifecycle *)

\* The values the spec and the column comment of Scan.status name.
DocumentedStatuses == {"pending", "running", "completed", "failed"}

TerminalStatuses == {"completed", "failed"}

\* A row of the scans table exists.
ScanExists(s) == scanStatus[s] \notin {"absent", "deleted"}

\* The status run_security_scan_task commits before it starts its work.
TaskBeginStatus == "processing"

\* nmap.PortScanner().scan outcomes as the task sees them:
\*   "raises" : the scan raises (nmap missing, PortScannerError, ...)
\*   "down"   : the host is not in nm.all_hosts()
\*   "clean"  : no open port other than 80 and 443
\*   "open"   : at least one open port other than 80 and 443
NmapOutcomes == {"raises", "down", "clean", "open"}

\* db.commit() of the second half of the task. Every Finding the task adds
\* leaves check_type and severity unset, both NOT NULL columns, so a commit
\* with a pending Finding raises IntegrityError and is rolled back.
CommitSucceeds(nm) == nm \in {"down", "clean"}

LifecycleInit ==
    /\ scanStatus = [s \in ScanIds |-> "absent"]
    /\ scanSummary = [s \in ScanIds |-> "none"]
    /\ queued = [s \in ScanIds |-> 0]
    /\ running = [s \in ScanIds |-> 0]
    /\ deliveries = [s \in ScanIds |-> 0]
    /\ portScans = [s \in ScanIds |-> 0]
    /\ autoReports = [s \in ScanIds |-> 0]
    /\ faulted = [s \in ScanIds |-> FALSE]
    /\ reportQueue = [s \in ScanIds |-> 0]
    /\ pdfReports = [s \in ScanIds |-> 0]

\* POST /scans/start/html: create_scan_for_target, then
\* run_security_scan_task.delay(scan_id). Ids are handed out in order.
StartScan(s) ==
    /\ scanStatus[s] = "absent"
    /\ \A t \in ScanIds : t < s => scanStatus[t] # "absent"
    /\ scanStatus' = [scanStatus EXCEPT ![s] = "pending"]
    /\ queued' = [queued EXCEPT ![s] = 1]
    /\ UNCHANGED <<scanSummary, running, deliveries, portScans, autoReports, faulted, reportQueue, pdfReports>>
    /\ UNCHANGED nonLifecycleVars

\* scan_service.mark_scan_started: no guard on the current status.
MarkScanStarted(s) ==
    /\ ScanExists(s)
    /\ scanStatus' = [scanStatus EXCEPT ![s] = "running"]
    /\ UNCHANGED <<scanSummary, queued, running, deliveries, portScans, autoReports, faulted, reportQueue, pdfReports>>
    /\ UNCHANGED nonLifecycleVars

\* scan_service.mark_scan_completed; summary is written when it is given.
MarkScanCompleted(s, summary) ==
    /\ ScanExists(s)
    /\ scanStatus' = [scanStatus EXCEPT ![s] = "completed"]
    /\ scanSummary' = IF summary # "none"
                        THEN [scanSummary EXCEPT ![s] = summary]
                        ELSE scanSummary
    /\ UNCHANGED <<queued, running, deliveries, portScans, autoReports, faulted, reportQueue, pdfReports>>
    /\ UNCHANGED nonLifecycleVars

\* scan_service.mark_scan_failed; error_message is written when non-empty.
MarkScanFailed(s, msg) ==
    /\ ScanExists(s)
    /\ scanStatus' = [scanStatus EXCEPT ![s] = "failed"]
    /\ scanSummary' = IF msg # "none"
                        THEN [scanSummary EXCEPT ![s] = msg]
                        ELSE scanSummary
    /\ UNCHANGED <<queued, running, deliveries, portScans, autoReports, faulted, reportQueue, pdfReports>>
    /\ UNCHANGED nonLifecycleVars

\* DELETE /targets/{id}: the target's scans go with it (cascade).
DeleteTarget(s) ==
    /\ ScanExists(s)
    /\ scanStatus' = [scanStatus EXCEPT ![s] = "deleted"]
    /\ pdfReports' = [pdfReports EXCEPT ![s] = 0]
    /\ UNCHANGED <<scanSummary, queued, running, deliveries, portScans, autoReports, faulted,
                   reportQueue>>
    /\ UNCHANGED nonLifecycleVars

\* run_security_scan_task, lines 84-91: a worker takes a message, looks the
\* scan up, returns False when it is gone, else commits the begin status.
TaskBegin(s) ==
    /\ queued[s] > 0
    /\ queued' = [queued EXCEPT ![s] = @ - 1]
    /\ deliveries' = [deliveries EXCEPT ![s] = @ + 1]
    /\ IF ScanExists(s)
         THEN /\ scanStatus' = [scanStatus EXCEPT ![s] = TaskBeginStatus]
              /\ running' = [running EXCEPT ![s] = @ + 1]
         ELSE UNCHANGED <<scanStatus, running>>
    /\ UNCHANGED <<scanSummary, portScans, autoReports, faulted, reportQueue, pdfReports>>
    /\ UNCHANGED nonLifecycleVars

\* run_security_scan_task, lines 93-118: after the sleep, the target lookup,
\* the port scan, the findings, the commit of "completed" and the report
\* task. There is no except clause: an exception leaves through finally.
TaskFinish(s, nm) ==
    /\ running[s] > 0
    /\ running' = [running EXCEPT ![s] = @ - 1]
    /\ IF ~ScanExists(s)
         THEN \* scan.target of a deleted row: the lookup raises
              /\ faulted' = [faulted EXCEPT ![s] = TRUE]
              /\ UNCHANGED <<scanStatus, scanSummary, portScans, autoReports, reportQueue>>
         ELSE /\ portScans' = [portScans EXCEPT ![s] = @ + 1]
              /\ IF nm # "raises" /\ CommitSucceeds(nm)
                   THEN /\ scanStatus' = [scanStatus EXCEPT ![s] = "completed"]
                        /\ autoReports' = [autoReports EXCEPT ![s] = @ + 1]
                        /\ reportQueue' = [reportQueue EXCEPT ![s] = @ + 1]
                        /\ UNCHANGED <<scanSummary, faulted>>
                   ELSE /\ faulted' = [faulted EXCEPT ![s] = TRUE]
                        /\ UNCHANGED <<scanStatus, scanSummary, autoReports, reportQueue>>
    /\ UNCHANGED <<queued, deliveries, pdfReports>>
    /\ UNCHANGED nonLifecycleVars

\* task_acks_late = True: the message of an execution whose worker is lost
\* before the task ends goes back to the queue. The worker may be lost
\* before or after nm.scan (scanned).
WorkerLost(s, scanned) ==
    /\ running[s] > 0
    /\ deliveries[s] < MaxDeliveries
    /\ running' = [running EXCEPT ![s] = @ - 1]
    /\ queued' = [queued EXCEPT ![s] = @ + 1]
    /\ portScans' = IF scanned /\ ScanExists(s)
                      THEN [portScans EXCEPT ![s] = @ + 1]
                      ELSE portScans
    /\ UNCHANGED <<scanStatus, scanSummary, deliveries, autoReports, faulted, reportQueue, pdfReports>>
    /\ UNCHANGED nonLifecycleVars

\* task_acks_late = True on the Redis broker: a message not acknowledged
\* within the visibility timeout is delivered again while its first
\* execution is still at work.
Redeliver(s) ==
    /\ running[s] > 0
    /\ deliveries[s] + queued[s] < MaxDeliveries
    /\ queued' = [queued EXCEPT ![s] = @ + 1]
    /\ UNCHANGED <<scanStatus, scanSummary, running, deliveries, portScans, autoReports, faulted, reportQueue, pdfReports>>
    /\ UNCHANGED nonLifecycleVars

\* POST /reports/{scan_id}/generate/html: the task is enqueued for whatever
\* scan id the request names; neither the scan nor its status is looked at.
RequestReport(s) ==
    /\ reportQueue[s] < MaxReportQueue
    /\ reportQueue' = [reportQueue EXCEPT ![s] = @ + 1]
    /\ UNCHANGED <<scanStatus, scanSummary, queued, running, deliveries, portScans,
                   autoReports, faulted, pdfReports>>
    /\ UNCHANGED nonLifecycleVars

\* generate_pdf_report_task: returns False when the scan is gone; else
\* evaluates the matrix, writes the PDF and adds the PdfReport row, whose
\* commit fails when the scan already has one (PdfReport.scan_id is unique).
GenerateReport(s) ==
    /\ reportQueue[s] > 0
    /\ reportQueue' = [reportQueue EXCEPT ![s] = @ - 1]
    /\ pdfReports' = IF ScanExists(s) /\ pdfReports[s] = 0
                       THEN [pdfReports EXCEPT ![s] = 1]
                       ELSE pdfReports
    /\ UNCHANGED <<scanStatus, scanSummary, queued, running, deliveries, portScans,
                   autoReports, faulted>>
    /\ UNCHANGED nonLifecycleVars

LifecycleNext ==
    \/ \E s \in ScanIds : StartScan(s)
    \/ \E s \in ScanIds : MarkScanStarted(s)
    \/ \E s \in ScanIds, m \in {"none", "summary"} : MarkScanCompleted(s, m)
    \/ \E s \in ScanIds, m \in {"none", "error"} : MarkScanFailed(s, m)
    \/ \E s \in ScanIds : DeleteTarget(s)
    \/ \E s \in ScanIds : TaskBegin(s)
    \/ \E s \in ScanIds, nm \in NmapOutcomes : TaskFinish(s, nm)
    \/ \E s \in ScanIds, scanned \in BOOLEAN : WorkerLost(s, scanned)
    \/ \E s \in ScanIds : Redeliver(s)
    \/ \E s \in ScanIds : RequestReport(s)
    \/ \E s \in ScanIds : GenerateReport(s)


-----------------------------------------------------------------------------
(* Text: a string is modelled as the sequence of its tokens (words, and    *)
(* one token per decimal digit), so that Python's `in` and str.lower are   *)
(* computed and not assumed.                                               *)

DigitChars == <<"0", "1", "2", "3", "4", "5", "6", "7", "8", "9">>

\* str(port) inside the f-string of the Finding name.
RECURSIVE DigitsOf(_)
DigitsOf(n) ==
    IF n < 10 THEN <<DigitChars[n + 1]>>
              ELSE DigitsOf(n \div 10) \o <<DigitChars[(n % 10) + 1]>>

\* str.lower() of one token.
LowerTok(tok) ==
    CASE tok = "Insecure" -> "insecure"
      [] tok = "Port" -> "port"
      [] tok = "Open:" -> "open:"
      [] tok = "Weak" -> "weak"
      [] tok = "Header" -> "header"
      [] OTHER -> tok

Lower(str) == [i \in 1..Len(str) |-> LowerTok(str[i])]

\* needle in hay, both token sequences.
Contains(hay, needle) ==
    \E i \in 0..(Len(hay) - Len(needle)) :
        \A j \in 1..Len(needle) : hay[i + j] = needle[j]

\* Whether the text of one token has `word` in it.
TokenContains(tok, word) ==
    \/ tok = word
    \/ tok = "SameSite=None" /\ word = "SameSite"

\* word in name, for a result name given as tokens.
NameHas(name, word) == \E i \in 1..Len(name) : TokenContains(name[i], word)

-----------------------------------------------------------------------------
(* evaluate_compliance: the matrix *)

CatalogIds == 1..28

DefaultEntry == [status |-> "Y", remark |-> <<"", "Compliant.">>, severity |-> "info"]

\* compliance_map = {str(i): default for i in range(1, 29)}
DefaultMatrix == [i \in CatalogIds |-> DefaultEntry]

\* compliance_map[key] = entry: a dict assignment, which adds a missing key.
Put(m, key, entry) ==
    [k \in (DOMAIN m) \cup {key} |-> IF k = key THEN entry ELSE m[k]]

\* The name run_security_scan_task gives a port finding (line 105).
PortFindingName(port) == <<"Insecure", "Port", "Open:">> \o DigitsOf(port)

\* A finding stored with another kind of name.
OtherFindingName == <<"Weak", "Header">>

AltWebPorts == {<<"8", "0", "0", "0">>, <<"8", "0", "8", "0">>, <<"8", "4", "4", "3">>}
StdWebPorts == {<<"8", "0">>, <<"4", "4", "3">>}

\* Lines 22-37: what one finding does to the matrix.
MapFinding(m, fname) ==
    LET name == Lower(fname) IN
    IF Contains(name, <<"port">>)
      THEN IF \E p \in AltWebPorts : Contains(name, p)
             THEN Put(m, 1, [status |-> "Y", remark |-> <<"WARNING", fname>>,
                             severity |-> "warning"])
             ELSE IF \E p \in StdWebPorts : Contains(name, p)
                    THEN m
                    ELSE Put(m, 1, [status |-> "N", remark |-> <<"CRITICAL", fname>>,
                                    severity |-> "critical"])
      ELSE m

\* Lines 21-37: the loop over the findings, in list order.
RECURSIVE MapFindings(_, _)
MapFindings(m, fs) ==
    IF fs = <<>> THEN m ELSE MapFindings(MapFinding(m, Head(fs)), Tail(fs))

-----------------------------------------------------------------------------
(* headers.run *)

\* requests.get(...) followed by resp.raise_for_status(): raises on a
\* connection error, a timeout and a 4xx/5xx status.
FetchRaises(net) == net.conn # "ok" \/ net.status >= 400

Result(ctype, name, sev, descr) ==
    [check_type |-> ctype, name |-> name, severity |-> sev, description |-> descr]

Missing(net, h) == net.headers[h] = "absent"
\* `not value`: the header is missing or empty.
Falsy(net, h) == net.headers[h] \in {"absent", "empty"}

When(cond, res) == IF cond THEN <<res>> ELSE <<>>

HeadersRun(net) ==
    IF FetchRaises(net)
      THEN [raised |-> TRUE, results |-> <<>>]
      ELSE [raised |-> FALSE, results |->
             When(Missing(net, "strict-transport-security"),
                  Result("headers", <<"Strict-Transport-Security">>, "high",
                         "HSTS header is missing."))
          \o When(Missing(net, "content-security-policy"),
                  Result("headers", <<"Content-Security-Policy">>, "high",
                         "CSP header is missing."))
          \o When(Falsy(net, "x-frame-options"),
                  Result("headers", <<"X-Frame-Options">>, "medium",
                         "X-Frame-Options header is missing."))
          \o When(net.headers["x-content-type-options"] # "nosniff",
                  Result("headers", <<"X-Content-Type-Options">>, "medium",
                         "X-Content-Type-Options header is missing or not set to 'nosniff'."))
          \o When(Falsy(net, "referrer-policy"),
                  Result("headers", <<"Referrer-Policy">>, "low",
                         "Referrer-Policy header is missing."))
          \o When(Falsy(net, "permissions-policy") /\ Falsy(net, "feature-policy"),
                  Result("headers", <<"Permissions-Policy">>, "low",
                         "Permissions-Policy (or legacy Feature-Policy) header is missing."))
          \o When(Falsy(net, "cross-origin-opener-policy"),
                  Result("headers", <<"Cross-Origin-Opener-Policy">>, "low",
                         "Cross-Origin-Opener-Policy header is missing."))
          \o When(Falsy(net, "cross-origin-embedder-policy"),
                  Result("headers", <<"Cross-Origin-Embedder-Policy">>, "low",
                         "Cross-Origin-Embedder-Policy header is missing."))]

-----------------------------------------------------------------------------
(* cookies.run, on the cookies parsed from Set-Cookie *)

CookieResultName(cname, what) == <<"Cookie", cname>> \o what

\* Lines 120-202: the results for one cookie.
CookieResults(c) ==
       When(~c.secure,
            Result("cookies", CookieResultName(c.name, <<"Secure", "flag">>), "high",
                   "missing the Secure attribute"))
    \o When(~c.httponly,
            Result("cookies", CookieResultName(c.name, <<"HttpOnly", "flag">>), "high",
                   "missing the HttpOnly attribute"))
    \o (IF c.samesite \in {"absent", "empty"}
          THEN <<Result("cookies", CookieResultName(c.name, <<"SameSite", "attribute">>),
                        "medium", "missing the SameSite attribute")>>
          ELSE IF c.samesite \notin {"lax", "strict", "none"}
                 THEN <<Result("cookies",
                               CookieResultName(c.name, <<"SameSite", "attribute">>),
                               "medium", "SameSite attribute has a non-standard value")>>
                 ELSE When(c.samesite = "none" /\ ~c.secure,
                           Result("cookies",
                                  CookieResultName(c.name,
                                                   <<"SameSite=None", "without", "Secure">>),
                                  "medium",
                                  "SameSite=None but missing the Secure attribute")))

RECURSIVE AllCookieResults(_)
AllCookieResults(cs) ==
    IF cs = <<>> THEN <<>> ELSE CookieResults(Head(cs)) \o AllCookieResults(Tail(cs))

CookiesRun(net) ==
    IF FetchRaises(net)
      THEN [raised |-> TRUE, results |-> <<>>]
      ELSE IF net.cookies = <<>>
             THEN [raised |-> FALSE, results |->
                    <<Result("cookies", <<"No", "Cookies", "Set">>, "low",
                             "No cookies were set by the application on the scanned URL.")>>]
             ELSE [raised |-> FALSE, results |-> AllCookieResults(net.cookies)]

-----------------------------------------------------------------------------
(* tls.run *)

WeakProtocols == {"SSLv2", "SSLv3", "TLSv1", "TLSv1.1"}

\* net.conn: "bad_url" (urlparse(url).port raises ValueError), "fail" (the
\* connection or the handshake raises OSError / ssl.SSLError), "ok".
TlsRun(net) ==
    IF net.conn = "bad_url"
      THEN [raised |-> TRUE, results |-> <<>>]
    ELSE IF net.conn = "fail"
      THEN [raised |-> FALSE, results |->
             <<Result("tls", <<"TLS", "Connection">>, "high",
                      "Failed to establish TLS connection.")>>]
    ELSE IF ~net.cert
      THEN [raised |-> FALSE, results |->
             <<Result("tls", <<"TLS", "Certificate">>, "high",
                      "Could not retrieve TLS certificate from server.")>>]
    ELSE [raised |-> FALSE, results |->
             When(net.version \in WeakProtocols,
                  Result("tls", <<"TLS", "Protocol", "Version">>, "high",
                         "Server uses weak or outdated protocol version."))
          \o When(~net.cipher,
                  Result("tls", <<"Cipher", "Suite">>, "medium",
                         "Could not determine the cipher suite used."))
          \o When(~net.subject,
                  Result("tls", <<"Certificate", "Subject">>, "medium",
                         "TLS certificate subject (CN) appears to be empty."))
          \o When(net.issuerLE,
                  Result("tls", <<"Certificate", "Issuer">>, "low",
                         "Certificate issued by Let's Encrypt."))
          \o <<Result("tls", <<"Certificate", "Validity">>, "low",
                      "TLS certificate validity period information.")>>]

-----------------------------------------------------------------------------
(* evaluate_compliance: the mapping of the scanner results *)

\* header_mapping.get(res.name); 0 stands for None.
HeaderMapping(name) ==
    CASE name = <<"Strict-Transport-Security">> -> 9
      [] name = <<"Content-Security-Policy">> -> 10
      [] name = <<"X-Frame-Options">> -> 8
      [] name = <<"X-XSS-Protection">> -> 7
      [] name = <<"Server">> -> 4
      [] name = <<"X-Powered-By">> -> 5
      [] name = <<"Cache-Control">> -> 13
      [] OTHER -> 0

\* tls_mapping.get(res.name); 0 stands for None.
TlsMapping(name) ==
    CASE name = <<"Legacy", "TLS", "Protocols">> -> 16
      [] name = <<"Weak", "Cipher", "Suites">> -> 17
      [] name = <<"Forward", "Secrecy">> -> 26
      [] OTHER -> 0

\* Lines 50-56.
MapHeaderResult(m, res) ==
    LET item == HeaderMapping(res.name)
        bad == res.severity \in {"high", "critical", "error"}
    IN IF item # 0
         THEN Put(m, item, [status |-> IF bad THEN "N" ELSE "Y",
                            remark |-> <<IF bad THEN "ERROR" ELSE "", res.description>>,
                            severity |-> res.severity])
         ELSE m

\* Lines 60-65.
MapCookieResult(m, res) ==
    IF NameHas(res.name, "Secure") \/ NameHas(res.name, "HttpOnly")
      THEN Put(m, 11, [status |-> IF res.severity \in {"high", "critical"} THEN "N" ELSE "Y",
                       remark |-> <<"CRITICAL", res.description>>,
                       severity |-> res.severity])
      ELSE IF NameHas(res.name, "SameSite")
             THEN Put(m, 12, [status |-> IF res.severity \in {"medium", "high"}
                                           THEN "N" ELSE "Y",
                              remark |-> <<"WARNING", res.description>>,
                              severity |-> res.severity])
             ELSE m

\* Lines 70-75.
MapTlsResult(m, res) ==
    LET item == TlsMapping(res.name) IN
    IF item # 0
      THEN Put(m, item, [status |-> IF res.severity \in {"high", "critical"} THEN "N" ELSE "Y",
                         remark |-> <<"CRITICAL", res.description>>,
                         severity |-> res.severity])
      ELSE m

RECURSIVE MapHeaderResults(_, _)
MapHeaderResults(m, rs) ==
    IF rs = <<>> THEN m ELSE MapHeaderResults(MapHeaderResult(m, Head(rs)), Tail(rs))

RECURSIVE MapCookieResults(_, _)
MapCookieResults(m, rs) ==
    IF rs = <<>> THEN m ELSE MapCookieResults(MapCookieResult(m, Head(rs)), Tail(rs))

RECURSIVE MapTlsResults(_, _)
MapTlsResults(m, rs) ==
    IF rs = <<>> THEN m ELSE MapTlsResults(MapTlsResult(m, Head(rs)), Tail(rs))

\* MapScanners without the except clause of line 77: the exception of a
\* scanner leaves evaluate_compliance and no map is returned.
MapScannersUncaught(m, hdrNet, ckNet, tlsNet) ==
    LET h == HeadersRun(hdrNet)
        c == CookiesRun(ckNet)
        t == TlsRun(tlsNet)
    IN IF h.raised \/ c.raised \/ t.raised
         THEN <<>>
         ELSE MapTlsResults(MapCookieResults(MapHeaderResults(m, h.results),
                                             c.results),
                            t.results)

\* Lines 39-78: the three scanners run first, inside one try block; the
\* mapping loops follow in the same block. An exception of any scanner is
\* logged and the map built so far is kept.
MapScanners(m, hdrNet, ckNet, tlsNet) ==
    LET h == HeadersRun(hdrNet)
        c == CookiesRun(ckNet)
        t == TlsRun(tlsNet)
    IN IF h.raised \/ c.raised \/ t.raised
         THEN m
         ELSE MapTlsResults(MapCookieResults(MapHeaderResults(m, h.results),
                                             c.results),
                            t.results)

\* evaluate_compliance(findings, target_url, hostname), lines 16-80.
EvaluateCompliance(findings, hdrNet, ckNet, tlsNet) ==
    MapScanners(MapFindings(DefaultMatrix, findings), hdrNet, ckNet, tlsNet)

-----------------------------------------------------------------------------
(* The arguments and network answers evaluate_compliance is checked on *)

SeqsUpTo(S, n) == UNION {[1..k -> S] : k \in 0..n}

\* Ports of the scan list of run_security_scan_task (line 99).
InputPorts == {21, 8080}

FindingNames == {PortFindingName(p) : p \in InputPorts} \cup {OtherFindingName}

HeaderKeys == {"strict-transport-security", "content-security-policy",
               "x-frame-options", "x-content-type-options", "referrer-policy",
               "permissions-policy", "feature-policy",
               "cross-origin-opener-policy", "cross-origin-embedder-policy"}

MappedHeaderKeys == {"strict-transport-security", "content-security-policy",
                     "x-frame-options"}

HeadersWith(P, v) == [h \in HeaderKeys |-> IF h \in P THEN v ELSE "absent"]

HeaderMaps ==
    {HeadersWith(P, "other") : P \in SUBSET MappedHeaderKeys}
        \cup {HeadersWith(HeaderKeys, "nosniff"), HeadersWith(HeaderKeys, "empty")}

NoAnswer(c) == [conn |-> c, status |-> 0, headers |-> HeadersWith({}, "absent"),
                cookies |-> <<>>]

Answer(st, hm, cs) == [conn |-> "ok", status |-> st, headers |-> hm, cookies |-> cs]

HdrNets ==
    {NoAnswer("refused"), NoAnswer("timeout"), Answer(404, HeadersWith({}, "absent"), <<>>)}
        \cup {Answer(200, hm, <<>>) : hm \in HeaderMaps}

Cookies == [name : {"sid"}, secure : BOOLEAN, httponly : BOOLEAN,
            samesite : {"absent", "lax", "none"}]

CkNets ==
    {NoAnswer("refused"), Answer(500, HeadersWith({}, "absent"), <<>>)}
        \cup {Answer(200, HeadersWith({}, "absent"), cs) : cs \in SeqsUpTo(Cookies, MaxCookies)}

TlsNet(conn, cert, version, cipher, subject, le) ==
    [conn |-> conn, cert |-> cert, version |-> version, cipher |-> cipher,
     subject |-> subject, issuerLE |-> le]

TlsNets ==
    {TlsNet("bad_url", FALSE, "none", FALSE, FALSE, FALSE),
     TlsNet("fail", FALSE, "none", FALSE, FALSE, FALSE),
     TlsNet("ok", FALSE, "TLSv1.3", TRUE, FALSE, FALSE),
     TlsNet("ok", TRUE, "TLSv1.3", TRUE, TRUE, FALSE),
     TlsNet("ok", TRUE, "TLSv1", FALSE, FALSE, TRUE)}

MapperOff ==
    /\ mPhase = "off"
    /\ mFindings = <<>>
    /\ mHdrNet = NoAnswer("refused")
    /\ mCkNet = NoAnswer("refused")
    /\ mTlsNet = TlsNet("fail", FALSE, "none", FALSE, FALSE, FALSE)
    /\ matrix = <<>>

MapperInit ==
    /\ mPhase = "ready"
    /\ mFindings \in SeqsUpTo(FindingNames, MaxFindings)
    /\ mHdrNet \in HdrNets
    /\ mCkNet \in CkNets
    /\ mTlsNet \in TlsNets
    /\ matrix = <<>>

\* generate_pdf_report_task, line 134: the call of evaluate_compliance.
Evaluate ==
    /\ mPhase = "ready"
    /\ matrix' = EvaluateCompliance(mFindings, mHdrNet, mCkNet, mTlsNet)
    /\ mPhase' = "done"
    /\ UNCHANGED <<mFindings, mHdrNet, mCkNet, mTlsNet>>
    /\ UNCHANGED nonMapperVars

MapperNext == Evaluate

-----------------------------------------------------------------------------
(* The probes check2 .. check28: the target as the probes see it *)

\* Response headers of the target, as the concrete values of one server.
BareHeaders ==
    [server |-> "", powered |-> "", etag |-> "", xss |-> "", xfo |-> "",
     hsts |-> "", csp |-> "", cookie |-> "", cache |-> "", xcto |-> ""]

HardenedHeaders ==
    [server |-> "nginx", powered |-> "", etag |-> "\"5f3a9c\"",
     xss |-> "1; mode=block", xfo |-> "DENY",
     hsts |-> "max-age=31536000; includeSubDomains",
     csp |-> "default-src 'self'; style-src 'self'",
     cookie |-> "sessionid=1; HttpOnly; Secure; SameSite=Lax",
     cache |-> "no-store, no-cache", xcto |-> "nosniff"]

SloppyHeaders ==
    [server |-> "Apache/2.4.41 (Ubuntu)", powered |-> "PHP/7.4.3",
     etag |-> "\"680c1-45-42a7c8\"", xss |-> "1", xfo |-> "ALLOW-FROM https://a.example",
     hsts |-> "max-age=300", csp |-> "default-src *", cookie |-> "sessionid=1",
     cache |-> "public", xcto |-> ""]

OddHeaders ==
    [server |-> "nginx", powered |-> "Express", etag |-> "", xss |-> "0",
     xfo |-> "SAMEORIGIN", hsts |-> "max-age=abc",
     csp |-> "default-src 'self'; style-src 'self'", cookie |-> "theme=dark",
     cache |-> "", xcto |-> "nosniff"]

HeaderProfiles == {BareHeaders, HardenedHeaders, SloppyHeaders, OddHeaders}

\* re.search(r'\d+\.\d+', value)
HasVersionNumber(v) == v \in {"Apache/2.4.41 (Ubuntu)", "PHP/7.4.3"}

\* re.match(inode_pattern, etag without quotes and W/)
IsInodeETag(v) == v = "\"680c1-45-42a7c8\""

\* int(directives.get('max-age', 0)); -1 stands for the ValueError of int().
HstsMaxAge(v) ==
    CASE v = "max-age=31536000; includeSubDomains" -> 31536000
      [] v = "max-age=300" -> 300
      [] v = "max-age=abc" -> -1
      [] OTHER -> 0

HstsHasSubdomains(v) == v = "max-age=31536000; includeSubDomains"

\* Substring tests on the Set-Cookie value, lower-cased.
CookieIsDynamic(v) == v \in {"sessionid=1; HttpOnly; Secure; SameSite=Lax", "sessionid=1"}
CookieHasFlag(v, flag) ==
    v = "sessionid=1; HttpOnly; Secure; SameSite=Lax"
        /\ flag \in {"httponly", "secure", "samesite", "samesite=lax"}

\* TLS servers: the kinds of handshake each one completes.
\*   default  : ssl.create_default_context() (certificate verified)
\*   sslv23   : SSLContext(PROTOCOL_SSLv23), any version both sides support
\*   tlsv1, tlsv1_1 : SSLContext(PROTOCOL_TLSv1 / PROTOCOL_TLSv1_1)
\*   only13   : PROTOCOL_SSLv23 with OP_NO_TLSv1 | OP_NO_TLSv1_1 | OP_NO_TLSv1_2
\*   no10     : PROTOCOL_SSLv23 with OP_NO_SSLv3 | OP_NO_TLSv1
\*   exportdh, anull, export, and the cipher groups of check17
WeakCipherGroups == <<"NULL", "EXPORT", "DES", "RC4", "3DES", "MD5">>

TlsAccepts(server) ==
    CASE server = "modern" -> {"default", "sslv23", "only13", "no10"}
      [] server = "tls12" -> {"default", "sslv23", "no10"}
      [] server = "badcert" -> {"sslv23", "only13", "no10"}
      [] server = "legacy" -> {"default", "sslv23", "tlsv1", "tlsv1_1", "no10",
                               "exportdh", "anull", "export", "RC4", "3DES"}
      [] OTHER -> {}

TlsServers == {"modern", "tls12", "badcert", "legacy"}

\* The target: reach is what every connection attempt to the host meets.
Unreachable == {"refused", "timeout", "dns_fail"}

DownEnv(r) ==
    [reach |-> r, status |-> 0, redirect |-> "none", headers |-> BareHeaders,
     tls |-> "none", putAllowed |-> FALSE, adminOpen |-> FALSE,
     caa |-> IF r = "dns_fail" THEN "nxdomain" ELSE "noanswer"]

UpEnvs ==
    [reach : {"up"}, status : {200, 403}, redirect : {"301", "none"},
     headers : HeaderProfiles, tls : TlsServers, putAllowed : BOOLEAN,
     adminOpen : BOOLEAN, caa : {"records", "noanswer"}]

Envs == {DownEnv(r) : r \in Unreachable} \cup UpEnvs

\* A requests call to the target over https: "exc" is a RequestException
\* (ConnectionError, Timeout, SSLError), "resp" a response of any status.
HttpsGet(env) ==
    IF env.reach # "up" \/ "default" \notin TlsAccepts(env.tls) THEN "exc" ELSE "resp"

\* A requests call to http://host (check2).
HttpGet(env) == IF env.reach # "up" THEN "exc" ELSE "resp"

\* socket.create_connection + context.wrap_socket with one kind of context.
Handshake(env, kind) ==
    IF env.reach # "up" THEN "oserror"
    ELSE IF kind \in TlsAccepts(env.tls) THEN "ok" ELSE "sslerror"

Ret(c, sev) == [raised |-> FALSE, compliance |-> c, severity |-> sev]

Raised == [raised |-> TRUE, compliance |-> "-", severity |-> "-"]

\* check2: HEAD http://host without following redirects.
Check2(env) ==
    IF HttpGet(env) = "exc" THEN Ret("N", "high")
    ELSE IF env.redirect = "301" THEN Ret("Y", "info")
    ELSE IF env.redirect \in {"302", "307", "308"} THEN Ret("Y", "info")
    ELSE Ret("N", "high")

\* check3: GET https://host following redirects; the final URL stays https.
Check3(env) ==
    IF HttpsGet(env) = "exc" THEN Ret("N", "high")
    ELSE IF env.status = 200 THEN Ret("Y", "info")
    ELSE Ret("Y", "warning")

\* check4: Server header.
Check4(env) ==
    IF HttpsGet(env) = "exc" THEN Ret("N", "high")
    ELSE IF env.headers.server = "" THEN Ret("Y", "info")
    ELSE IF ~HasVersionNumber(env.headers.server) THEN Ret("Y", "info")
    ELSE Ret("N", "high")

\* check5: X-Powered-By and the other fingerprinting headers.
Check5(env) ==
    IF HttpsGet(env) = "exc" THEN Ret("N", "high")
    ELSE IF env.headers.powered = "" THEN Ret("Y", "info")
    ELSE Ret("N", "high")

\* check6: ETag.
Check6(env) ==
    IF HttpsGet(env) = "exc" THEN Ret("N", "high")
    ELSE IF env.headers.etag = "" THEN Ret("Y", "info")
    ELSE IF IsInodeETag(env.headers.etag) THEN Ret("N", "high")
    ELSE Ret("Y", "info")

\* check7: X-XSS-Protection.
Check7(env) ==
    IF HttpsGet(env) = "exc" THEN Ret("N", "high")
    ELSE IF env.headers.xss = "1; mode=block" THEN Ret("Y", "info")
    ELSE IF env.headers.xss = "1" THEN Ret("Y", "warning")
    ELSE IF env.headers.xss = "0" THEN Ret("N", "high")
    ELSE Ret("N", "high")

\* check8: X-Frame-Options.
Check8(env) ==
    IF HttpsGet(env) = "exc" THEN Ret("N", "high")
    ELSE IF env.headers.xfo = "DENY" THEN Ret("Y", "info")
    ELSE IF env.headers.xfo = "SAMEORIGIN" THEN Ret("Y", "info")
    ELSE Ret("N", "high")

\* check9: Strict-Transport-Security; every exception, the ValueError of
\* int() included, is caught.
Check9(env) ==
    IF HttpsGet(env) = "exc" THEN Ret("N", "high")
    ELSE IF env.headers.hsts = "" THEN Ret("N", "high")
    ELSE IF HstsMaxAge(env.headers.hsts) < 0 THEN Ret("N", "high")
    ELSE IF HstsMaxAge(env.headers.hsts) >= 31536000
            /\ HstsHasSubdomains(env.headers.hsts) THEN Ret("Y", "info")
    ELSE IF HstsMaxAge(env.headers.hsts) > 0 THEN Ret("Y", "warning")
    ELSE Ret("N", "high")

\* check10: Content-Security-Policy.
Check10(env) ==
    IF HttpsGet(env) = "exc" THEN Ret("N", "high")
    ELSE IF env.headers.csp = "" THEN Ret("N", "high")
    ELSE IF env.headers.csp = "default-src *" THEN Ret("Y", "warning")
    ELSE Ret("Y", "info")

\* check11: HttpOnly and Secure on Set-Cookie.
Check11(env) ==
    IF HttpsGet(env) = "exc" THEN Ret("N", "high")
    ELSE IF env.headers.cookie = "" THEN Ret("Y", "info")
    ELSE IF CookieHasFlag(env.headers.cookie, "httponly")
            /\ CookieHasFlag(env.headers.cookie, "secure") THEN Ret("Y", "info")
    ELSE IF CookieIsDynamic(env.headers.cookie) THEN Ret("N", "high")
    ELSE Ret("Y", "warning")

\* check12: SameSite on Set-Cookie.
Check12(env) ==
    IF HttpsGet(env) = "exc" THEN Ret("N", "high")
    ELSE IF env.headers.cookie = "" THEN Ret("Y", "info")
    ELSE IF CookieHasFlag(env.headers.cookie, "samesite=lax") THEN Ret("Y", "info")
    ELSE IF CookieIsDynamic(env.headers.cookie) THEN Ret("N", "high")
    ELSE Ret("Y", "warning")

\* check13: Cache-Control.
Check13(env) ==
    IF HttpsGet(env) = "exc" THEN Ret("N", "high")
    ELSE IF env.headers.cache = "no-store, no-cache" THEN Ret("Y", "info")
    ELSE IF env.headers.cache # "" THEN Ret("Y", "warning")
    ELSE Ret("N", "high")

\* check14: one request per dangerous method; a request that fails is skipped.
DangerousMethods == {"PUT", "DELETE", "TRACE", "CONNECT"}

MethodAccepted(env, method) ==
    /\ HttpsGet(env) = "resp"
    /\ method = "PUT"
    /\ env.putAllowed

Check14(env) ==
    LET found_methods == {m \in DangerousMethods : MethodAccepted(env, m)}
    IN IF found_methods = {} THEN Ret("Y", "info") ELSE Ret("N", "high")

\* check15: one HEAD per admin path; a request that fails is skipped.
AdminPaths == {"/admin", "/wp-admin", "/phpmyadmin"}

PathExposed(env, path) ==
    /\ HttpsGet(env) = "resp"
    /\ path = "/admin"
    /\ env.adminOpen

Check15(env) ==
    LET exposed_paths == {p \in AdminPaths : PathExposed(env, p)}
    IN IF exposed_paths = {} THEN Ret("Y", "info") ELSE Ret("N", "high")

\* A handshake of a certificate-verifying context restricted to one cipher
\* string (set_ciphers on ssl.create_default_context()).
VerifiedHandshake(env, cipher) ==
    IF Handshake(env, "default") = "ok" THEN Handshake(env, cipher)
    ELSE Handshake(env, "default")

\* check16: one handshake per weak protocol; the "SSLv2" entry negotiates with
\* PROTOCOL_SSLv23, the SSLv3 entry is skipped on builds without it.
WeakProtocolKinds ==
    [name \in {"SSLv2", "TLSv1", "TLSv1.1"} |->
        CASE name = "SSLv2" -> "sslv23"
          [] name = "TLSv1" -> "tlsv1"
          [] OTHER -> "tlsv1_1"]

Check16(env) ==
    LET found_weak == {n \in DOMAIN WeakProtocolKinds :
                          Handshake(env, WeakProtocolKinds[n]) = "ok"}
    IN IF found_weak = {} THEN Ret("Y", "info") ELSE Ret("N", "high")

\* check17: one verified handshake per weak cipher group.
Check17(env) ==
    LET found_weak == {i \in DOMAIN WeakCipherGroups :
                          VerifiedHandshake(env, WeakCipherGroups[i]) = "ok"}
    IN IF found_weak = {} THEN Ret("Y", "info") ELSE Ret("N", "high")

\* check18: PROTOCOL_SSLv23 with TLS 1.0, 1.1 and 1.2 switched off.
Check18(env) ==
    IF Handshake(env, "only13") = "ok" THEN Ret("N", "high") ELSE Ret("Y", "info")

\* check19: export-grade DH ciphers.
Check19(env) ==
    IF VerifiedHandshake(env, "exportdh") = "ok" THEN Ret("N", "high")
    ELSE Ret("Y", "info")

\* check20: raw heartbeat probe; every exception is read as protected.
HeartbeatReply(env) == env.tls = "legacy"

Check20(env) ==
    IF env.reach # "up" THEN Ret("Y", "info")
    ELSE IF HeartbeatReply(env) THEN Ret("N", "high")
    ELSE Ret("Y", "info")

\* check21: ssock.compression() of a verified handshake.
Compression(env) == IF env.tls = "legacy" THEN "zlib" ELSE "None"

Check21(env) ==
    IF Handshake(env, "default") # "ok" THEN Ret("Y", "info")
    ELSE IF Compression(env) = "None" THEN Ret("Y", "info")
    ELSE Ret("N", "high")

\* check22: CSP style-src and X-Content-Type-Options.
Check22(env) ==
    LET has_csp_style == env.headers.csp = "default-src 'self'; style-src 'self'"
        has_nosniff == env.headers.xcto = "nosniff"
    IN IF HttpsGet(env) = "exc" THEN Ret("N", "high")
       ELSE IF has_csp_style /\ has_nosniff THEN Ret("Y", "info")
       ELSE IF has_csp_style \/ has_nosniff THEN Ret("Y", "warning")
       ELSE Ret("N", "high")

\* check23: aNULL ciphers, certificate not verified.
Check23(env) ==
    IF Handshake(env, "anull") = "ok" THEN Ret("N", "high") ELSE Ret("Y", "info")

\* check24: EXPORT ciphers.
Check24(env) ==
    IF VerifiedHandshake(env, "export") = "ok" THEN Ret("N", "high")
    ELSE Ret("Y", "info")

\* check25: PROTOCOL_SSLv23 with SSLv3 and TLS 1.0 switched off.
Check25(env) ==
    IF Handshake(env, "no10") = "ok" THEN Ret("N", "high") ELSE Ret("Y", "info")

\* check26: cipher name of a verified handshake.
NegotiatedCipher(env) ==
    CASE env.tls = "modern" -> "TLS_AES_256_GCM_SHA384"
      [] env.tls = "tls12" -> "ECDHE-RSA-AES256-GCM-SHA384"
      [] OTHER -> "AES256-SHA"

HasPfs(cipher_name) == cipher_name = "ECDHE-RSA-AES256-GCM-SHA384"

Check26(env) ==
    IF Handshake(env, "default") # "ok" THEN Ret("N", "high")
    ELSE IF HasPfs(NegotiatedCipher(env)) THEN Ret("Y", "info")
    ELSE Ret("N", "high")

\* check27: raw "GET / HTTP/1.0" over a verified TLS socket.
Http10Reply(env) ==
    IF env.headers = SloppyHeaders THEN "HTTP/1.0 200 OK" ELSE "HTTP/1.1 200 OK"

Check27(env) ==
    IF Handshake(env, "default") # "ok" THEN Ret("Y", "info")
    ELSE IF Http10Reply(env) = "HTTP/1.1 200 OK" THEN Ret("Y", "info")
    ELSE IF Http10Reply(env) = "HTTP/1.0 200 OK" THEN Ret("N", "high")
    ELSE Ret("Y", "info")

\* check28: DNS CAA query.
Check28(env) ==
    IF env.caa = "records" THEN Ret("Y", "info") ELSE Ret("N", "high")

CheckIds == 2..28

\* module.run_check(target_url) of check<i>.
RunCheck(i, env) ==
    CASE i = 2 -> Check2(env)   [] i = 3 -> Check3(env)   [] i = 4 -> Check4(env)
      [] i = 5 -> Check5(env)   [] i = 6 -> Check6(env)   [] i = 7 -> Check7(env)
      [] i = 8 -> Check8(env)   [] i = 9 -> Check9(env)   [] i = 10 -> Check10(env)
      [] i = 11 -> Check11(env) [] i = 12 -> Check12(env) [] i = 13 -> Check13(env)
      [] i = 14 -> Check14(env) [] i = 15 -> Check15(env) [] i = 16 -> Check16(env)
      [] i = 17 -> Check17(env) [] i = 18 -> Check18(env) [] i = 19 -> Check19(env)
      [] i = 20 -> Check20(env) [] i = 21 -> Check21(env) [] i = 22 -> Check22(env)
      [] i = 23 -> Check23(env) [] i = 24 -> Check24(env) [] i = 25 -> Check25(env)
      [] i = 26 -> Check26(env) [] i = 27 -> Check27(env) [] OTHER -> Check28(env)

-----------------------------------------------------------------------------
(* The three scanners and the 27 checks, run against one target *)

\* The response headers as headers.run reads them (keys lower-cased).
ScannerHeaders(p) ==
    [h \in HeaderKeys |->
        CASE h = "strict-transport-security" -> IF p.hsts = "" THEN "absent" ELSE "other"
          [] h = "content-security-policy" -> IF p.csp = "" THEN "absent" ELSE "other"
          [] h = "x-frame-options" -> IF p.xfo = "" THEN "absent" ELSE "other"
          [] h = "x-content-type-options" -> IF p.xcto = "" THEN "absent" ELSE "nosniff"
          [] OTHER -> "absent"]

\* The Set-Cookie header as _analyze_cookie_attributes reads it.
ParsedCookies(p) ==
    IF p.cookie = "" THEN <<>>
    ELSE <<[name |-> IF CookieIsDynamic(p.cookie) THEN "sessionid" ELSE "theme",
            secure |-> CookieHasFlag(p.cookie, "secure"),
            httponly |-> CookieHasFlag(p.cookie, "httponly"),
            samesite |-> IF CookieHasFlag(p.cookie, "samesite") THEN "lax" ELSE "absent"]>>

\* The GET of headers.run and of cookies.run against the target.
GetOf(env) ==
    IF HttpsGet(env) = "exc"
      THEN NoAnswer(IF env.reach = "up" THEN "sslerror" ELSE env.reach)
      ELSE Answer(env.status, ScannerHeaders(env.headers), ParsedCookies(env.headers))

\* The connection of tls._get_tls_info: verify_mode is CERT_NONE, and
\* getpeercert() of an unverified peer is the empty dict.
TlsOf(env) ==
    IF env.reach # "up"
      THEN TlsNet("fail", FALSE, "none", FALSE, FALSE, FALSE)
      ELSE TlsNet("ok", FALSE, IF env.tls = "legacy" THEN "TLSv1" ELSE "TLSv1.3",
                  TRUE, FALSE, FALSE)

HasHighResult(results) ==
    \E i \in DOMAIN results : results[i].severity \in {"high", "critical"}

\* What a scanner call did, with the verdict its results amount to.
ScannerOut(r) ==
    IF r.raised
      THEN [raised |-> TRUE, compliance |-> "-", severity |-> "-", results |-> <<>>]
      ELSE [raised |-> FALSE,
            compliance |-> IF HasHighResult(r.results) THEN "N" ELSE "Y",
            severity |-> IF HasHighResult(r.results) THEN "high" ELSE "low",
            results |-> r.results]

CheckOut(r) ==
    [raised |-> r.raised, compliance |-> r.compliance, severity |-> r.severity,
     results |-> <<>>]

\* Which probe ran: a scanner, or check<id>.
Probe(kind, id) == [kind |-> kind, id |-> id]

ProbeOff ==
    /\ pEnv = DownEnv("refused")
    /\ pProbe = Probe("off", 0)
    /\ pOut = CheckOut(Raised)

ProbeInit ==
    /\ pEnv \in Envs
    /\ pProbe = Probe("none", 0)
    /\ pOut = CheckOut(Ret("-", "-"))

ProbeHeaders ==
    /\ pProbe.kind # "off"
    /\ pProbe' = Probe("headers", 0)
    /\ pOut' = ScannerOut(HeadersRun(GetOf(pEnv)))
    /\ UNCHANGED pEnv
    /\ UNCHANGED nonProbeVars

ProbeCookies ==
    /\ pProbe.kind # "off"
    /\ pProbe' = Probe("cookies", 0)
    /\ pOut' = ScannerOut(CookiesRun(GetOf(pEnv)))
    /\ UNCHANGED pEnv
    /\ UNCHANGED nonProbeVars

ProbeTls ==
    /\ pProbe.kind # "off"
    /\ pProbe' = Probe("tls", 0)
    /\ pOut' = ScannerOut(TlsRun(TlsOf(pEnv)))
    /\ UNCHANGED pEnv
    /\ UNCHANGED nonProbeVars

ProbeCheck(i) ==
    /\ pProbe.kind # "off"
    /\ pProbe' = Probe("check", i)
    /\ pOut' = CheckOut(RunCheck(i, pEnv))
    /\ UNCHANGED pEnv
    /\ UNCHANGED nonProbeVars

ProbeNext ==
    \/ ProbeHeaders
    \/ ProbeCookies
    \/ ProbeTls
    \/ \E i \in CheckIds : ProbeCheck(i)

-----------------------------------------------------------------------------
(* master_runner.run_all *)

CheckOutcomes == {"returns", "raises", "missing"}

\* RunOne with a single bare except clause that takes every exception for a
\* missing module.
RunOneBareExcept(i, env, outcome) ==
    CASE outcome \in {"missing", "raises"} ->
           [compliance |-> "Y", remark |-> "Check module missing.", severity |-> "info"]
      [] OTHER ->
           [compliance |-> RunCheck(i, env).compliance, remark |-> "run_check",
            severity |-> RunCheck(i, env).severity]

\* One iteration of the loop, lines 11-24: import_module, run_check and the
\* two except clauses.
RunOne(i, env, outcome) ==
    CASE outcome = "missing" ->
           [compliance |-> "Y", remark |-> "Check module missing.", severity |-> "info"]
      [] outcome = "raises" ->
           [compliance |-> "N", remark |-> "Execution error", severity |-> "high"]
      [] OTHER ->
           [compliance |-> RunCheck(i, env).compliance, remark |-> "run_check",
            severity |-> RunCheck(i, env).severity]

RECURSIVE RunAllFrom(_, _, _, _)
RunAllFrom(i, results, env, outcome) ==
    IF i \notin CheckIds THEN results
    ELSE RunAllFrom(i + 1, Put(results, i, RunOne(i, env, outcome[i])), env, outcome)

\* run_all(target_url), lines 6-26.
RunAll(env, outcome) == RunAllFrom(2, <<>>, env, outcome)

\* The targets run_all is checked on.
RunAllEnvs ==
    {DownEnv("refused")}
        \cup {e \in UpEnvs : /\ e.status = 200 /\ e.redirect = "301" /\ e.caa = "records"
                             /\ ~e.putAllowed /\ ~e.adminOpen
                             /\ \/ e.headers = HardenedHeaders /\ e.tls = "modern"
                                \/ e.headers = SloppyHeaders /\ e.tls = "legacy"}

\* The subsets of S of at most k elements.
RECURSIVE SubsetsUpTo(_, _)
SubsetsUpTo(S, k) ==
    IF k = 0 THEN {{}}
    ELSE LET P == SubsetsUpTo(S, k - 1) IN P \cup {X \cup {a} : X \in P, a \in S}

\* Outcome assignments in which at most MaxDeviations checks do not return.
OutcomeMaps ==
    {[i \in CheckIds |-> IF i \in DOMAIN f THEN f[i] ELSE "returns"] :
        f \in UNION {[D -> {"raises", "missing"}] : D \in SubsetsUpTo(CheckIds, MaxDeviations)}}

RunAllOff ==
    /\ rPhase = "off"
    /\ rEnv = DownEnv("refused")
    /\ rOutcome = [i \in CheckIds |-> "returns"]
    /\ rResults = <<>>

RunAllInit ==
    /\ rPhase = "ready"
    /\ rEnv \in RunAllEnvs
    /\ rOutcome \in OutcomeMaps
    /\ rResults = <<>>

RunAllCall ==
    /\ rPhase = "ready"
    /\ rResults' = RunAll(rEnv, rOutcome)
    /\ rPhase' = "done"
    /\ UNCHANGED <<rEnv, rOutcome>>
    /\ UNCHANGED nonRunAllVars

RunAllNext == RunAllCall

-----------------------------------------------------------------------------
(* Accounts, targets and scans: the routes and their ownership filters *)

\* The email strings requests carry.
Emails == {"ann@x.io", "Ann@x.io", "bob@x.io"}

\* email.lower() of create_user.
EmailLower(e) == IF e = "Ann@x.io" THEN "ann@x.io" ELSE e

TargetIds == 1..MaxTargets

OwnedScanIds == 1..MaxOwnedScans

\* The users a request can be authenticated as (get_current_user).
UserIds == 1..Len(users)

\* A request (route, authenticated user, id in the path or form) and the
\* answer to it (status code, detail, ids of the rows in the body).
Response(op, u, arg, code, detail, ids) ==
    [op |-> op, user |-> u, arg |-> arg, code |-> code, detail |-> detail, ids |-> ids]

\* db.query(User).filter(User.email == email).first()
GetUserByEmail(email) == \E i \in DOMAIN users : users[i] = email

\* A lookup of the target by its id alone.
ExistingTarget(u, tid) == targetOwner[tid] > 0

\* db.query(Target).filter(Target.id == target_id, Target.user_id == user.id).first()
OwnTarget(u, tid) == targetOwner[tid] = u

\* A lookup of the scan by its id alone.
ExistingScan(u, sid) == scanOwner[sid] > 0

\* db.query(Scan).filter(Scan.id == scan_id, Scan.user_id == user_id).first()
OwnScan(u, sid) == scanOwner[sid] = u

\* list_user_scans
ListUserScans(u) == {s \in OwnedScanIds : scanOwner[s] = u}

\* db.query(Target).filter(Target.user_id == current_user.id).all()
ListUserTargets(u) == {tid \in TargetIds : targetOwner[tid] = u}

AccessOff ==
    /\ users = <<>>
    /\ registered = {}
    /\ targetOwner = [tid \in TargetIds |-> 0]
    /\ scanOwner = [s \in OwnedScanIds |-> 0]
    /\ scanTarget = [s \in OwnedScanIds |-> 0]
    /\ enqueued = {}
    /\ resp = Response("off", 0, 0, 0, "", {})

AccessInit ==
    /\ users = <<>>
    /\ registered = {}
    /\ targetOwner = [tid \in TargetIds |-> 0]
    /\ scanOwner = [s \in OwnedScanIds |-> 0]
    /\ scanTarget = [s \in OwnedScanIds |-> 0]
    /\ enqueued = {}
    /\ resp = Response("none", 0, 0, 0, "", {})

\* POST /auth/register: 400 when get_user_by_email finds the string as it
\* was sent; else create_user stores email.lower(), and the commit raises
\* IntegrityError (an unhandled 500) when that value is already stored
\* (User.email is unique).
ApiRegister(e) ==
    /\ resp.op # "off"
    /\ IF GetUserByEmail(e)
         THEN /\ resp' = Response("api_register", 0, 0, 400, "Email already registered", {})
              /\ UNCHANGED <<users, registered>>
         ELSE IF GetUserByEmail(EmailLower(e))
                THEN /\ resp' = Response("api_register", 0, 0, 500, "IntegrityError", {})
                     /\ UNCHANGED <<users, registered>>
                ELSE /\ users' = Append(users, EmailLower(e))
                     /\ registered' = registered \cup {e}
                     /\ resp' = Response("api_register", 0, 0, 201, "created", {})
    /\ UNCHANGED <<targetOwner, scanOwner, scanTarget, enqueued>>
    /\ UNCHANGED nonAccessVars

\* The id the next inserted row gets (0: the table is at its bound).
NextTargetId ==
    IF \E k \in TargetIds : targetOwner[k] = 0
      THEN CHOOSE k \in TargetIds : targetOwner[k] = 0 /\ \A j \in TargetIds : j < k => targetOwner[j] # 0
      ELSE 0

NextScanId ==
    IF \E k \in OwnedScanIds : scanOwner[k] = 0
      THEN CHOOSE k \in OwnedScanIds : scanOwner[k] = 0 /\ \A j \in OwnedScanIds : j < k => scanOwner[j] # 0
      ELSE 0

\* POST /targets/: a new row owned by the current user.
CreateTarget(u) ==
    /\ u \in UserIds
    /\ NextTargetId # 0
    /\ targetOwner' = [targetOwner EXCEPT ![NextTargetId] = u]
    /\ resp' = Response("create_target", u, 0, 201, "created", {NextTargetId})
    /\ UNCHANGED <<users, registered, scanOwner, scanTarget, enqueued>>
    /\ UNCHANGED nonAccessVars

\* GET /targets/
ListTargets(u) ==
    /\ u \in UserIds
    /\ resp' = Response("list_targets", u, 0, 200, "targets", ListUserTargets(u))
    /\ UNCHANGED <<users, registered, targetOwner, scanOwner, scanTarget, enqueued>>
    /\ UNCHANGED nonAccessVars

\* The rows that go with a deleted target (Target.scans cascade).
ScansAfterDelete(tid) ==
    [s \in OwnedScanIds |-> IF scanTarget[s] = tid /\ scanOwner[s] > 0
                              THEN -1 ELSE scanOwner[s]]

\* DELETE /targets/{target_id}
DeleteTargetApi(u, tid) ==
    /\ u \in UserIds
    /\ IF OwnTarget(u, tid)
         THEN /\ targetOwner' = [targetOwner EXCEPT ![tid] = -1]
              /\ scanOwner' = ScansAfterDelete(tid)
              /\ resp' = Response("delete_target", u, tid, 204, "", {})
         ELSE /\ resp' = Response("delete_target", u, tid, 404, "Target not found", {})
              /\ UNCHANGED <<targetOwner, scanOwner>>
    /\ UNCHANGED <<users, registered, scanTarget, enqueued>>
    /\ UNCHANGED nonAccessVars

\* POST /targets/{target_id}/delete/html: redirects in either case.
DeleteTargetHtml(u, tid) ==
    /\ u \in UserIds
    /\ IF OwnTarget(u, tid)
         THEN /\ targetOwner' = [targetOwner EXCEPT ![tid] = -1]
              /\ scanOwner' = ScansAfterDelete(tid)
         ELSE UNCHANGED <<targetOwner, scanOwner>>
    /\ resp' = Response("delete_target_html", u, tid, 302, "/api/v1/targets/html", {})
    /\ UNCHANGED <<users, registered, scanTarget, enqueued>>
    /\ UNCHANGED nonAccessVars

\* create_scan_for_target: Scan(user_id=user.id, target_id=target.id).
CreateScanForTarget(u, tid) ==
    /\ scanOwner' = [scanOwner EXCEPT ![NextScanId] = u]
    /\ scanTarget' = [scanTarget EXCEPT ![NextScanId] = tid]

\* The scan-start route with the target looked up by id alone.
StartScanHtmlAnyTarget(u, tid) ==
    /\ u \in UserIds
    /\ targetOwner[tid] > 0 => NextScanId # 0
    /\ IF targetOwner[tid] > 0
         THEN /\ CreateScanForTarget(u, tid)
              /\ enqueued' = enqueued \cup {NextScanId}
              /\ resp' = Response("start_scan_html", u, tid, 302, "/api/v1/scans/html", {})
         ELSE /\ resp' = Response("start_scan_html", u, tid, 404, "Target not found", {})
              /\ UNCHANGED <<scanOwner, scanTarget, enqueued>>
    /\ UNCHANGED <<users, registered, targetOwner>>
    /\ UNCHANGED nonAccessVars

\* POST /scans/start/html
StartScanHtml(u, tid) ==
    /\ u \in UserIds
    /\ OwnTarget(u, tid) => NextScanId # 0
    /\ IF OwnTarget(u, tid)
         THEN /\ CreateScanForTarget(u, tid)
              /\ enqueued' = enqueued \cup {NextScanId}
              /\ resp' = Response("start_scan_html", u, tid, 302, "/api/v1/scans/html", {})
         ELSE /\ resp' = Response("start_scan_html", u, tid, 404, "Target not found", {})
              /\ UNCHANGED <<scanOwner, scanTarget, enqueued>>
    /\ UNCHANGED <<users, registered, targetOwner>>
    /\ UNCHANGED nonAccessVars

\* GET /scans/
ListScans(u) ==
    /\ u \in UserIds
    /\ resp' = Response("list_scans", u, 0, 200, "scans", ListUserScans(u))
    /\ UNCHANGED <<users, registered, targetOwner, scanOwner, scanTarget, enqueued>>
    /\ UNCHANGED nonAccessVars

\* GET /scans/{scan_id}
GetScanDetail(u, sid) ==
    /\ u \in UserIds
    /\ resp' = IF OwnScan(u, sid)
                 THEN Response("get_scan_detail", u, sid, 200, "scan", {sid})
                 ELSE Response("get_scan_detail", u, sid, 404, "Scan not found", {})
    /\ UNCHANGED <<users, registered, targetOwner, scanOwner, scanTarget, enqueued>>
    /\ UNCHANGED nonAccessVars

AccessNext ==
    \/ \E e \in Emails : ApiRegister(e)
    \/ \E u \in UserIds : CreateTarget(u)
    \/ \E u \in UserIds : ListTargets(u)
    \/ \E u \in UserIds, tid \in TargetIds : DeleteTargetApi(u, tid)
    \/ \E u \in UserIds, tid \in TargetIds : DeleteTargetHtml(u, tid)
    \/ \E u \in UserIds, tid \in TargetIds : StartScanHtml(u, tid)
    \/ \E u \in UserIds : ListScans(u)
    \/ \E u \in UserIds, sid \in OwnedScanIds : GetScanDetail(u, sid)

-----------------------------------------------------------------------------
(* The request loops of check14, check15 and check16, one request a step *)

LoopChecks == {14, 15, 16}

\* dangerous_methods (check14), admin_paths (check15), weak_protocols (check16)
LoopItems(i) ==
    CASE i = 14 -> <<"PUT", "DELETE", "TRACE", "CONNECT">>
      [] i = 15 -> <<"/admin", "/wp-admin", "/phpmyadmin", "/controlpanel", "/cp",
                     "/administrator", "/console", "/login.php", "/admin.php",
                     "/magento/admin">>
      [] OTHER -> <<"SSLv2", "SSLv3", "TLSv1", "TLSv1.1">>

\* What one request meets: the server accepts (2xx, 200, handshake done),
\* refuses (another status, SSLError, connection refused) or does not
\* answer within the 5 seconds (requests Timeout, socket.timeout).
RequestOutcomes == {"accepted", "refused", "timeout"}

\* check16, `if proto is None: continue`
ItemSkipped == lCheck = 16 /\ LoopItems(16)[lIdx] = "SSLv3" /\ ~lSslv3

LoopOff ==
    /\ lPhase = "off"
    /\ lCheck = 0
    /\ lSslv3 = FALSE
    /\ lIdx = 0
    /\ lFound = {}
    /\ lTimedOut = FALSE
    /\ lRequests = 0
    /\ lOut = Ret("-", "-")

LoopInit ==
    /\ lPhase = "idle"
    /\ lCheck = 0
    /\ lSslv3 \in BOOLEAN
    /\ lIdx = 0
    /\ lFound = {}
    /\ lTimedOut = FALSE
    /\ lRequests = 0
    /\ lOut = Ret("-", "-")

\* run_check(target_url) is called: the lists are empty, the loop starts.
LoopBegin(i) ==
    /\ lPhase \in {"idle", "returned"}
    /\ lPhase' = "running"
    /\ lCheck' = i
    /\ lIdx' = 1
    /\ lFound' = {}
    /\ lTimedOut' = FALSE
    /\ lRequests' = 0
    /\ lOut' = Ret("-", "-")
    /\ UNCHANGED lSslv3
    /\ UNCHANGED nonLoopVars

\* One pass of the for loop whose request is sent: a success appends to the
\* found list; every exception of the request, a timeout included, is caught
\* by the inner except and the loop continues with the next item.
LoopRequest(outcome) ==
    /\ lPhase = "running"
    /\ lIdx <= Len(LoopItems(lCheck))
    /\ ~ItemSkipped
    /\ lRequests' = lRequests + 1
    /\ lFound' = IF outcome = "accepted" THEN lFound \cup {lIdx} ELSE lFound
    /\ lTimedOut' = (lTimedOut \/ outcome = "timeout")
    /\ lIdx' = lIdx + 1
    /\ UNCHANGED <<lPhase, lCheck, lSslv3, lOut>>
    /\ UNCHANGED nonLoopVars

\* One pass of the for loop of check16 for a protocol the build lacks.
LoopSkip ==
    /\ lPhase = "running"
    /\ lIdx <= Len(LoopItems(lCheck))
    /\ ItemSkipped
    /\ lIdx' = lIdx + 1
    /\ UNCHANGED <<lPhase, lCheck, lSslv3, lFound, lTimedOut, lRequests, lOut>>
    /\ UNCHANGED nonLoopVars

\* The list is exhausted: the verdict is returned.
LoopReturn ==
    /\ lPhase = "running"
    /\ lIdx > Len(LoopItems(lCheck))
    /\ lPhase' = "returned"
    /\ lOut' = IF lFound = {} THEN Ret("Y", "info") ELSE Ret("N", "high")
    /\ UNCHANGED <<lCheck, lSslv3, lIdx, lFound, lTimedOut, lRequests>>
    /\ UNCHANGED nonLoopVars

LoopNext ==
    \/ \E i \in LoopChecks : LoopBegin(i)
    \/ \E outcome \in RequestOutcomes : LoopRequest(outcome)
    \/ LoopSkip
    \/ LoopReturn

-----------------------------------------------------------------------------
(* core.rate_limit: the sorted-set limiter *)

\* request.client.host of the callers
Clients == {"10.0.0.1", "10.0.0.2"}

Seconds == 1..MaxTime

\* pipe.zremrangebyscore(key, 0, now - window_seconds)
ZRemRangeByScore(members, now) == {t \in members : t > now - WindowSeconds}

\* pipe.zadd(key, {str(now): now}): the member is the second itself
ZAdd(members, now) == members \cup {now}

RateOff ==
    /\ rlNow = 0
    /\ rlSet = [c \in Clients |-> {}]
    /\ rlPassed = [c \in Clients |-> [t \in Seconds |-> 0]]
    /\ rlLast = 0

RateInit ==
    /\ rlNow = 1
    /\ rlSet = [c \in Clients |-> {}]
    /\ rlPassed = [c \in Clients |-> [t \in Seconds |-> 0]]
    /\ rlLast = 0

\* A second passes.
Tick ==
    /\ rlNow \in 1..(MaxTime - 1)
    /\ rlNow' = rlNow + 1
    /\ UNCHANGED <<rlSet, rlPassed, rlLast>>
    /\ UNCHANGED nonRateVars

\* wrapper(*args, **kwargs) with the limiter enabled: the pipeline trims the
\* set, adds the request, counts; above max_requests the answer is 429, else
\* the handler is called.
Wrapper(c) ==
    /\ rlNow >= 1
    /\ rlPassed[c][rlNow] < MaxBurst
    /\ LET members == ZAdd(ZRemRangeByScore(rlSet[c], rlNow), rlNow)
           count == Cardinality(members)
       IN /\ rlSet' = [rlSet EXCEPT ![c] = members]
          /\ IF count > MaxRequests
               THEN /\ rlLast' = 429
                    /\ UNCHANGED rlPassed
               ELSE /\ rlLast' = 200
                    /\ rlPassed' = [rlPassed EXCEPT ![c][rlNow] = @ + 1]
    /\ UNCHANGED rlNow
    /\ UNCHANGED nonRateVars

RateNext ==
    \/ Tick
    \/ \E c \in Clients : Wrapper(c)

-----------------------------------------------------------------------------
(* Reports: generate_pdf_report_task, the report routes and the PDF files *)

ReportUsers == {1, 2}

ReportScanIds == 1..MaxReportScans

\* The host names of the targets, label by label.
Hosts == << <<"example", "com">>, <<"www", "example", "org">>, <<"other", "net">> >>

\* The scans of the world reports are made in: scan s belongs to
\* ScanUser(s) and its target is ScanHost(s).
ScanUser(s) == ((s - 1) % 2) + 1

ScanHost(s) == Hosts[((s - 1) % Len(Hosts)) + 1]

\* domain_parts[0] if domain_parts[0] != "www" else domain_parts[1]
FilePrefix(domain_parts) ==
    IF domain_parts[1] # "www" THEN domain_parts[1] ELSE domain_parts[2]

\* generate_pdf_for_scan returns f"{file_prefix}.pdf"; Path(full_path).name
FileName(s) == <<FilePrefix(ScanHost(s)), "pdf">>

FileNames == {FileName(s) : s \in ReportScanIds}

ReportMessage(s, u) == [scan_id |-> s, user_id |-> u]

PdfReportRow(id, s, u, f) == [id |-> id, scan_id |-> s, user_id |-> u, file_path |-> f]

\* A commit that never meets the unique constraint.
NeverConflicts(s) == FALSE

\* PdfReport.scan_id is unique: the INSERT of a second row for the scan fails.
UniqueViolation(s) == \E r \in reports : r.scan_id = s

\* get_report_for_user
GetReportForUser(report_id, u) == {r \in reports : r.id = report_id /\ r.user_id = u}

ReportsOff ==
    /\ reports = {}
    /\ files = [f \in FileNames |-> 0]
    /\ pendingReports = {}
    /\ nextReportId = 0
    /\ repTaskOut = "off"
    /\ repGot = [user |-> 0, scan |-> 0]

ReportsInit ==
    /\ reports = {}
    /\ files = [f \in FileNames |-> 0]
    /\ pendingReports = {}
    /\ nextReportId = 1
    /\ repTaskOut = "none"
    /\ repGot = [user |-> 0, scan |-> 0]

\* run_security_scan_task, line 116: the report of a completed scan is
\* requested in the name of the scan's owner.
AutoReport(s) ==
    /\ nextReportId > 0
    /\ Cardinality(pendingReports \cup {ReportMessage(s, ScanUser(s))}) <= MaxPendingReports
    /\ pendingReports' = pendingReports \cup {ReportMessage(s, ScanUser(s))}
    /\ UNCHANGED <<reports, files, nextReportId, repTaskOut, repGot>>
    /\ UNCHANGED nonReportsVars

\* POST /reports/{scan_id}/generate/html: the task is sent for the id in the
\* path and the current user.
GenerateReportHtml(u, s) ==
    /\ nextReportId > 0
    /\ Cardinality(pendingReports \cup {ReportMessage(s, u)}) <= MaxPendingReports
    /\ pendingReports' = pendingReports \cup {ReportMessage(s, u)}
    /\ UNCHANGED <<reports, files, nextReportId, repTaskOut, repGot>>
    /\ UNCHANGED nonReportsVars

\* generate_pdf_report_task: the PDF is written under the name made of the
\* first label of the host, then the row is added and committed.
GeneratePdfReportTask(msg) ==
    /\ msg \in pendingReports
    /\ ~UniqueViolation(msg.scan_id) => nextReportId <= MaxReportIds
    /\ pendingReports' = pendingReports \ {msg}
    /\ files' = [files EXCEPT ![FileName(msg.scan_id)] = msg.scan_id]
    /\ IF UniqueViolation(msg.scan_id)
         THEN /\ repTaskOut' = "IntegrityError"
              /\ UNCHANGED <<reports, nextReportId>>
         ELSE /\ reports' = reports \cup {PdfReportRow(nextReportId, msg.scan_id, msg.user_id,
                                                        FileName(msg.scan_id))}
              /\ nextReportId' = nextReportId + 1
              /\ repTaskOut' = "stored"
    /\ UNCHANGED repGot
    /\ UNCHANGED nonReportsVars

\* POST /reports/{report_id}/delete/html, delete_report_for_user: the file
\* the row names is unlinked and the row deleted.
DeleteReportHtml(u, report_id) ==
    /\ nextReportId > 0
    /\ \E r \in GetReportForUser(report_id, u) :
          /\ files' = [files EXCEPT ![r.file_path] = 0]
          /\ reports' = reports \ {r}
    /\ UNCHANGED <<pendingReports, nextReportId, repTaskOut, repGot>>
    /\ UNCHANGED nonReportsVars

\* GET /reports/{report_id}/download: the row is looked up by id, then by
\* scan id, both times among the rows of the current user; the file the row
\* names is served when it exists.
DownloadReport(u, report_id) ==
    /\ nextReportId > 0
    /\ LET byId == GetReportForUser(report_id, u)
           byScan == {r \in reports : r.scan_id = report_id /\ r.user_id = u}
           found == IF byId # {} THEN byId ELSE byScan
       IN repGot' = IF found = {}
                      THEN [user |-> u, scan |-> 0]
                      ELSE [user |-> u, scan |-> files[(CHOOSE r \in found : TRUE).file_path]]
    /\ UNCHANGED <<reports, files, pendingReports, nextReportId, repTaskOut>>
    /\ UNCHANGED nonReportsVars

ReportsNext ==
    \/ \E s \in ReportScanIds : AutoReport(s)
    \/ \E u \in ReportUsers, s \in ReportScanIds : GenerateReportHtml(u, s)
    \/ \E msg \in pendingReports : GeneratePdfReportTask(msg)
    \/ \E u \in ReportUsers, id \in 1..MaxReportIds : DeleteReportHtml(u, id)
    \/ \E u \in ReportUsers, id \in 1..MaxReportIds : DownloadReport(u, id)

-----------------------------------------------------------------------------
(* Specifications *)

\* The scan lifecycle.
Init == LifecycleInit /\ MapperOff /\ ProbeOff /\ RunAllOff /\ AccessOff /\ LoopOff /\ RateOff /\ ReportsOff

Next == LifecycleNext

Spec == Init /\ [][Next]_vars

\* One call of evaluate_compliance on every argument.
InitMapper == MapperInit /\ LifecycleInit /\ ProbeOff /\ RunAllOff /\ AccessOff /\ LoopOff /\ RateOff /\ ReportsOff

NextMapper == MapperNext

SpecMapper == InitMapper /\ [][NextMapper]_vars

\* The probes against every target.
InitProbe == ProbeInit /\ LifecycleInit /\ MapperOff /\ RunAllOff /\ AccessOff /\ LoopOff /\ RateOff /\ ReportsOff

NextProbe == ProbeNext

SpecProbe == InitProbe /\ [][NextProbe]_vars

\* One call of run_all on every target and outcome assignment.
InitRunAll == RunAllInit /\ LifecycleInit /\ MapperOff /\ ProbeOff /\ AccessOff /\ LoopOff /\ RateOff /\ ReportsOff

NextRunAll == RunAllNext

SpecRunAll == InitRunAll /\ [][NextRunAll]_vars

\* The routes, called by the registered users in any order.
InitAccess == AccessInit /\ LifecycleInit /\ MapperOff /\ ProbeOff /\ RunAllOff /\ LoopOff /\ RateOff /\ ReportsOff

NextAccess == AccessNext

SpecAccess == InitAccess /\ [][NextAccess]_vars

\* The request loops of the probes against a network that may accept,
\* refuse or time out on every single request.
InitLoop == LoopInit /\ LifecycleInit /\ MapperOff /\ ProbeOff /\ RunAllOff /\ AccessOff /\ RateOff /\ ReportsOff

NextLoop == LoopNext

SpecLoop == InitLoop /\ [][NextLoop]_vars

\* The rate limiter under requests of two clients at any times.
InitRate == RateInit /\ LifecycleInit /\ MapperOff /\ ProbeOff /\ RunAllOff /\ AccessOff /\ LoopOff /\ ReportsOff

NextRate == RateNext

SpecRate == InitRate /\ [][NextRate]_vars

\* Report generation, deletion and download by two users.
InitReports == ReportsInit /\ LifecycleInit /\ MapperOff /\ ProbeOff /\ RunAllOff /\ AccessOff /\ LoopOff /\ RateOff

NextReports == ReportsNext

SpecReports == InitReports /\ [][NextReports]_vars

-----------------------------------------------------------------------------
(* Properties *)

\* C1: evaluate_compliance always returns a map with exactly the keys 1..28,
\* every entry holding a status of "Y" or "N", a remark and a severity,
\* whatever the findings are and whatever the scanners do, exceptions included.
C1_MatrixTotal ==
    mPhase = "done" =>
        /\ DOMAIN matrix = CatalogIds
        /\ \A k \in CatalogIds :
              /\ DOMAIN matrix[k] = {"status", "remark", "severity"}
              /\ matrix[k].status \in {"Y", "N"}

\* A call has returned although a scanner raised and a port finding was mapped.
C1_Witness ==
    /\ mPhase = "done"
    /\ HeadersRun(mHdrNet).raised \/ CookiesRun(mCkNet).raised \/ TlsRun(mTlsNet).raised
    /\ Len(mFindings) > 0
    /\ matrix[1].status = "N"

\* C2: the status of every scan row is always one of pending, running,
\* completed, failed, the commits in the middle of the scan task included.
C2_StatusDocumented ==
    \A s \in ScanIds : ScanExists(s) => scanStatus[s] \in DocumentedStatuses

\* C3 (finite form): an execution of the scan task that ends by a fault
\* leaves the scan failed with the error in its summary.
C3_FaultEndsFailed ==
    [][\A s \in ScanIds :
          (~faulted[s] /\ faulted'[s] /\ scanStatus'[s] # "deleted")
              => (scanStatus'[s] = "failed" /\ scanSummary'[s] = "error")]_vars

\* C4: a scan that is completed or failed keeps that status in every step
\* (its row may only disappear with its target).
C4_TerminalImmutable ==
    [][\A s \in ScanIds :
          scanStatus[s] \in TerminalStatuses
              => scanStatus'[s] \in {scanStatus[s], "deleted"}]_vars

\* C5: however often the task is executed for a scan, the scan gets at most
\* one port scan and at most one report task.
C5_ExecutedOnce ==
    \A s \in ScanIds : portScans[s] <= 1 /\ autoReports[s] <= 1

\* C6: no probe lets an exception out, whatever the network does.
C6_ProbesNeverRaise ==
    pProbe.kind \notin {"off", "none"} => ~pOut.raised

\* C7: against an unreachable host every probe that returns, returns a
\* non-compliant verdict.
C7_UnreachableNonCompliant ==
    (pProbe.kind \notin {"off", "none"} /\ pEnv.reach \in Unreachable /\ ~pOut.raised)
        => pOut.compliance = "N"

\* C8: in evaluate_compliance the results of a scanner that returned are
\* mapped whatever the other scanners did: header results decide items 8, 9
\* and 10, cookie results decide items 11 and 12.
C8_ScannersIsolated ==
    mPhase = "done" =>
        /\ ~HeadersRun(mHdrNet).raised =>
              \A k \in {8, 9, 10} :
                  matrix[k] = MapHeaderResults(DefaultMatrix, HeadersRun(mHdrNet).results)[k]
        /\ ~CookiesRun(mCkNet).raised =>
              \A k \in {11, 12} :
                  matrix[k] = MapCookieResults(DefaultMatrix, CookiesRun(mCkNet).results)[k]

\* C9: run_all returns exactly one entry for each of the keys 2..28: N/high
\* for a check that raised, Y/info for a missing module, and the check's own
\* verdict for every other check.
C9_RunAllTotal ==
    rPhase = "done" =>
        /\ DOMAIN rResults = CheckIds
        /\ \A i \in CheckIds :
              /\ rOutcome[i] = "raises" =>
                    rResults[i].compliance = "N" /\ rResults[i].severity = "high"
              /\ rOutcome[i] = "missing" =>
                    rResults[i].compliance = "Y" /\ rResults[i].severity = "info"
              /\ rOutcome[i] = "returns" =>
                    /\ rResults[i].compliance = RunCheck(i, rEnv).compliance
                    /\ rResults[i].severity = RunCheck(i, rEnv).severity

\* run_all has returned after one check raised, another module was missing
\* and a later check still ran.
C9_Witness ==
    /\ rPhase = "done"
    /\ \E i, j, k \in CheckIds :
          /\ i < k /\ j < k
          /\ rOutcome[i] = "raises" /\ rOutcome[j] = "missing" /\ rOutcome[k] = "returns"
          /\ rResults[i].compliance = "N"
          /\ rResults[j].compliance = "Y"

\* C10: a critical finding on port 21 makes item 1 critical and "N",
\* wherever it stands among the findings.
C10_WorstSeverityWins ==
    (mPhase = "done" /\ \E i \in DOMAIN mFindings : mFindings[i] = PortFindingName(21))
        => (matrix[1].status = "N" /\ matrix[1].severity = "critical")

\* The orders in which the elements of a list can arrive.
PermsOf(seq) ==
    {[i \in DOMAIN seq |-> seq[p[i]]] : p \in Permutations(DOMAIN seq)}

NoScannerRaised ==
    /\ ~HeadersRun(mHdrNet).raised
    /\ ~CookiesRun(mCkNet).raised
    /\ ~TlsRun(mTlsNet).raised

\* C11: the matrix does not depend on the order of the findings nor on the
\* order of the scanner results: every reordering of the findings and of the
\* cookie results maps to the matrix that was returned.
C11_OrderIndependent ==
    (mPhase = "done" /\ NoScannerRaised) =>
        \A fs \in PermsOf(mFindings), cs \in PermsOf(CookiesRun(mCkNet).results) :
            MapTlsResults(
                MapCookieResults(
                    MapHeaderResults(MapFindings(DefaultMatrix, fs),
                                     HeadersRun(mHdrNet).results),
                    cs),
                TlsRun(mTlsNet).results) = matrix

\* C12: a call of evaluate_compliance with the same findings returns the same
\* matrix whatever the network answers to the scanners during the call.
C12_PureInFindings ==
    mPhase = "done" =>
        \A h \in HdrNets, c \in CkNets, n \in TlsNets :
            EvaluateCompliance(mFindings, h, c, n) = matrix

\* C13: when the target's response carries no Strict-Transport-Security
\* header, item 9 is "N" with severity high, for every status code of the
\* response and every outcome of the cookie and TLS scanners.
C13_NoHstsIsHigh ==
    (/\ mPhase = "done"
     /\ mHdrNet.conn = "ok"
     /\ mHdrNet.headers["strict-transport-security"] = "absent")
        => (matrix[9].status = "N" /\ matrix[9].severity = "high")

\* C14: when the scanners return and some cookie of the target lacks Secure
\* or lacks HttpOnly, item 11 is "N", whatever the other cookie results are.
C14_InsecureCookieIsN ==
    (/\ mPhase = "done"
     /\ NoScannerRaised
     /\ \E i \in DOMAIN mCkNet.cookies :
           ~mCkNet.cookies[i].secure \/ ~mCkNet.cookies[i].httponly)
        => matrix[11].status = "N"

\* C16: a scanner result that resolves to no catalog item is kept as a
\* finding of the scan once evaluate_compliance has returned.
C16_UnmappedRetained ==
    (mPhase = "done" /\ NoScannerRaised) =>
        /\ \A i \in DOMAIN HeadersRun(mHdrNet).results :
              LET res == HeadersRun(mHdrNet).results[i]
              IN HeaderMapping(res.name) = 0
                    => \E j \in DOMAIN mFindings : mFindings[j] = res.name
        /\ \A i \in DOMAIN TlsRun(mTlsNet).results :
              LET res == TlsRun(mTlsNet).results[i]
              IN TlsMapping(res.name) = 0
                    => \E j \in DOMAIN mFindings : mFindings[j] = res.name

\* C15: a PdfReport is stored only for a scan that is completed, whether the
\* report task was sent by the scan task or by the generate-report route.
C15_ReportsOnlyCompleted ==
    [][\A s \in ScanIds :
          pdfReports'[s] > pdfReports[s] => scanStatus[s] = "completed"]_vars

\* A target that exists and belongs to somebody other than u.
OthersTarget(u, tid) == targetOwner[tid] > 0 /\ targetOwner[tid] # u

OthersScan(u, sid) == scanOwner[sid] > 0 /\ scanOwner[sid] # u

\* C18: a user reads only their own scans: the detail of a scan owned by
\* another user is answered 404 without a body, and every scan in the list
\* a user is given is owned by that user.
C18_OwnScansOnly ==
    [][/\ \A u \in UserIds, sid \in OwnedScanIds :
             (GetScanDetail(u, sid) /\ OthersScan(u, sid))
                 => (resp'.code = 404 /\ resp'.ids = {})
       /\ \A u \in UserIds :
             ListScans(u) => \A s \in resp'.ids : scanOwner[s] = u]_vars

\* The last request asked for the detail of a scan of somebody else and
\* was answered 404.
C18_Witness ==
    /\ resp.op = "get_scan_detail"
    /\ resp.code = 404
    /\ OthersScan(resp.user, resp.arg)

\* C19: a target is deleted only by its owner: a delete by another user is
\* answered 404 and leaves the targets, and so every user's target list, as
\* they were; a delete by the owner is answered 204 and the target is no
\* longer in the owner's list.
C19_OwnerDeletesTarget ==
    [][\A u \in UserIds, tid \in TargetIds :
          DeleteTargetApi(u, tid) =>
              /\ OthersTarget(u, tid) =>
                    /\ resp'.code = 404
                    /\ targetOwner' = targetOwner
                    /\ \A o \in UserIds :
                          {k \in TargetIds : targetOwner'[k] = o} = ListUserTargets(o)
              /\ targetOwner[tid] = u =>
                    /\ resp'.code = 204
                    /\ tid \notin {k \in TargetIds : targetOwner'[k] = u}]_vars

\* The last request was a delete by a user who does not own the target,
\* answered 404 with the target still there, after an owner has deleted a
\* target of theirs.
C19_Witness ==
    /\ resp.op = "delete_target"
    /\ resp.code = 404
    /\ OthersTarget(resp.user, resp.arg)
    /\ \E tid \in TargetIds : targetOwner[tid] = -1

\* C20: registering an email string again after a registration of it was
\* accepted is answered 400 "Email already registered" and adds no user.
C20_DuplicateEmailIs400 ==
    [][\A e \in Emails :
          (ApiRegister(e) /\ e \in registered)
              => /\ resp'.code = 400
                 /\ resp'.detail = "Email already registered"
                 /\ users' = users]_vars

\* C21: a single timeout is terminal for a probe invocation: once a request
\* of the running probe has timed out, the probe sends no further request.
C21_TimeoutTerminal ==
    [][(lPhase = "running" /\ lTimedOut) => lRequests' = lRequests]_vars

\* The legacy protocol versions a reachable server completes a handshake at.
LegacyAccepted(env) ==
    IF env.reach = "up" THEN TlsAccepts(env.tls) \cap {"tlsv1", "tlsv1_1"} ELSE {}

\* C22: check16 answers "N" exactly when the server completes a handshake at
\* a legacy protocol version; a server that accepts TLS 1.2 and newer only
\* is answered "Y".
C22_LegacyExactlyN ==
    pProbe = Probe("check", 16)
        => (pOut.compliance = "N" <=> LegacyAccepted(pEnv) # {})

\* The catalog items of the headers that are both mapped and inspected.
InspectedHeaderItems ==
    [h \in {"strict-transport-security", "content-security-policy", "x-frame-options"} |->
        CASE h = "strict-transport-security" -> 9
          [] h = "content-security-policy" -> 10
          [] OTHER -> 8]

\* C23: when the scanners return, the absence of Strict-Transport-Security,
\* Content-Security-Policy or X-Frame-Options from the response makes item
\* 9, 10 or 8 "N" with severity high.
C23_AbsentHeaderIsHigh ==
    (mPhase = "done" /\ NoScannerRaised) =>
        \A h \in DOMAIN InspectedHeaderItems :
            Missing(mHdrNet, h) =>
                /\ matrix[InspectedHeaderItems[h]].status = "N"
                /\ matrix[InspectedHeaderItems[h]].severity = "high"

\* C24: when the scanners return and tls.run yields a result of severity
\* high, one of the items 16, 17 and 26 is "N".
C24_HighTlsResultIsN ==
    (/\ mPhase = "done"
     /\ NoScannerRaised
     /\ \E i \in DOMAIN TlsRun(mTlsNet).results : TlsRun(mTlsNet).results[i].severity = "high")
        => \E k \in {16, 17, 26} : matrix[k].status = "N"

\* C30: in the matrix returned, an entry is "N" exactly when its severity
\* is high, critical or error.
C30_StatusMatchesSeverity ==
    mPhase = "done" =>
        \A k \in CatalogIds :
            matrix[k].status = "N" <=> matrix[k].severity \in {"high", "critical", "error"}

\* The requests of client c handed to the handler in the seconds from..to.
RECURSIVE PassedIn(_, _, _)
PassedIn(c, from, to) ==
    IF from > to THEN 0
    ELSE (IF from \in Seconds THEN rlPassed[c][from] ELSE 0) + PassedIn(c, from + 1, to)

\* C28: for every client and every window of window_seconds seconds, at most
\* max_requests requests reach the handler.
C28_AtMostMaxPerWindow ==
    \A c \in Clients, t \in Seconds :
        PassedIn(c, t, t + WindowSeconds - 1) <= MaxRequests

\* C25: whatever the order of the automatic and the requested report
\* generations, no scan has more than one PdfReport row.
C25_OneReportPerScan ==
    \A s \in ReportScanIds : Cardinality({r \in reports : r.scan_id = s}) <= 1

\* A report task has just failed on the unique constraint: the scan keeps
\* the one row it had.
C25_Witness ==
    /\ repTaskOut = "IntegrityError"
    /\ \E s \in ReportScanIds : Cardinality({r \in reports : r.scan_id = s}) = 1

\* C26: every PdfReport row belongs to the owner of the scan it refers to.
C26_ReportOwnerIsScanOwner ==
    \A r \in reports : r.user_id = ScanUser(r.scan_id)

\* C27: two PdfReport rows never name the same file.
C27_FilesNotShared ==
    \A r1, r2 \in reports : r1 # r2 => r1.file_path # r2.file_path

\* C29: the findings of the scan task satisfy the constraints of the table,
\* so an execution that finds an open port outside 80 and 443 commits and
\* completes the scan just as one that finds none.
C29_OpenPortScanCompletes ==
    [][\A s \in ScanIds, nm \in {"clean", "open"} :
          (TaskFinish(s, nm) /\ ScanExists(s)) => scanStatus'[s] = "completed"]_vars

====
